---- MODULE Spec2Model ----
(***************************************************************************)
(* Model of the ParentPass chatbot backend: the in-memory SessionStore     *)
(* (app/session_store.py), the query dispatcher (app/routers/queries.py    *)
(* and the inline handler of app/main.py) and the session endpoints        *)
(* (app/routers/sessions.py).                                              *)
(*                                                                         *)
(* State objects are Python objects handed out by reference: the store     *)
(* maps a session id to a SessionData holding a reference, and a handler   *)
(* appends to the object it was given.  The heap is therefore explicit:    *)
(* heap[ref] is the recent_messages list of the State object ref.          *)
(*                                                                         *)
(* A State object that neither the store nor a running handler references *)
(* is freed, as CPython does, and its slot of the heap is used again.      *)
(*                                                                         *)
(* Time is counted in whole hours.  Every method of SessionStore is taken  *)
(* as one atomic step.                                                     *)
(***************************************************************************)
EXTENDS Integers, Sequences, FiniteSets, TLC

VARIABLES clock, sessions, heap, req, last, apiKey, app

vars == <<clock, sessions, heap, req, last, apiKey, app>>

----------------------------------------------------------------------------
(* Bounds of the model *)

MaxClock == 5

MaxObjs == 2

MaxLen == 2

----------------------------------------------------------------------------
(* Program constants *)

EXPIRY_HOURS == 4

WELCOME == "Hello! I'm the ParentPass administrative assistant. How can I help you analyze the platform today?"

NO_DATA_FALLBACK == "I don't have access to the analytics data needed to answer your question right now. Please try again later or contact support if this issue persists."

UNEXPECTED_FALLBACK == "I'm having trouble processing your request right now. Please try rephrasing your question or try again later."

ERROR_FALLBACK == "I'm having trouble processing your request right now. Please try again."

MAIN_NO_DATA_FALLBACK == "I don't have access to the analytics data needed to answer your question right now. Please try again later."

(* the texts that contain "having trouble processing your request" *)
HavingTrouble == {UNEXPECTED_FALLBACK, ERROR_FALLBACK}

(* the texts that contain "don't have access to the analytics data needed" *)
NoAnalyticsAccess == {NO_DATA_FALLBACK, MAIN_NO_DATA_FALLBACK}

----------------------------------------------------------------------------
(* Input domains *)

(* values of X-Session-ID / the {session_id} path parameter *)
SessionIds == {"s1", "unknown"}

(* ids str(uuid.uuid4()) can produce: never the literal "unknown" *)
UuidIds == {"s1"}

NoHeader == "<absent>"

HeaderValues == SessionIds \cup {"", NoHeader}

UserTexts == {"hello"}

InvalidBody == "<invalid>"

Bodies == UserTexts \cup {InvalidBody}

CHAT_REPLY == "hi"

ANSWER_REPLY == "report"

ValidToken == "key"

Tokens == {ValidToken, "wrong", "<absent>"}

(* the two applications of the repository: the routers of app/routers and *)
(* the inline handlers of app/main.py                                      *)
Apps == {"routers", "main"}

(* the handlers of POST /api/query that can be running at the same time *)
Reqs == {1, 2}

----------------------------------------------------------------------------
(* Data *)

Message(role, content) == [role |-> role, content |-> content]

create_state == << >>

(* a fresh state without the welcome message *)
initial_state_unseeded == create_state

initial_state == Append(create_state, Message("assistant", WELCOME))

SessionData(state, now) == [state |-> state, created_at |-> now]

IsPrefix(s, t) == Len(s) <= Len(t) /\ SubSeq(t, 1, Len(s)) = s

Range(s) == {s[i] : i \in DOMAIN s}

----------------------------------------------------------------------------
(* The heap of State objects *)

Free == <<Message("-", "free")>>

FreeSlots(H) == {i \in DOMAIN H : H[i] = Free}

(* State(...) : the new object takes the lowest free slot *)
NewRef(H) == CHOOSE i \in FreeSlots(H) : \A j \in FreeSlots(H) : i <= j

(* objects referenced by the store S or by a handler that is running *)
Referenced(S, R) ==
    {S[sid].state : sid \in DOMAIN S}
        \cup {R[r].state : r \in {q \in DOMAIN R : R[q].pc \in {"chat", "answer"}}}

(* objects nothing references any more are freed *)
Collect(H, S, R) ==
    [i \in DOMAIN H |-> IF i \in Referenced(S, R) THEN H[i] ELSE Free]

----------------------------------------------------------------------------
(* SessionStore, as functions of the map S, the heap H and the time now *)

(* the sweep with <= for <: a session aged exactly the window is removed *)
Expired_inclusive(S, now) ==
    LET cutoff == now - EXPIRY_HOURS
    IN  {sid \in DOMAIN S : S[sid].created_at <= cutoff}

Expired(S, now) ==
    LET cutoff == now - EXPIRY_HOURS
    IN  {sid \in DOMAIN S : S[sid].created_at < cutoff}

cleanup_expired_sessions(S, now) ==
    [sid \in (DOMAIN S) \ Expired(S, now) |-> S[sid]]

get_state(S, H, session_id, now) ==
    LET S1 == cleanup_expired_sessions(S, now)
    IN  IF session_id \in DOMAIN S1
        THEN [sessions |-> S1, heap |-> H, ret |-> S1[session_id].state]
        ELSE LET ref == NewRef(H)
             IN  [sessions |-> [x \in (DOMAIN S1) \cup {session_id} |->
                                   IF x = session_id
                                   THEN SessionData(ref, now)
                                   ELSE S1[x]],
                  heap |-> [H EXCEPT ![ref] = initial_state],
                  ret |-> ref]

(* get_state can be modelled: it allocates nothing or a slot is free *)
HasRoom(S, H, session_id, now) ==
    session_id \in DOMAIN cleanup_expired_sessions(S, now) \/ FreeSlots(H) # {}

(* set_state that wraps the state in a new SessionData every time *)
set_state_rewrap(S, session_id, state, now) ==
    [x \in (DOMAIN S) \cup {session_id} |->
        IF x = session_id THEN SessionData(state, now) ELSE S[x]]

set_state(S, session_id, state, now) ==
    IF session_id \in DOMAIN S
    THEN [S EXCEPT ![session_id].state = state]
    ELSE [x \in (DOMAIN S) \cup {session_id} |->
             IF x = session_id THEN SessionData(state, now) ELSE S[x]]

delete_session(S, session_id) ==
    IF session_id \in DOMAIN S
    THEN [x \in (DOMAIN S) \ {session_id} |-> S[x]]
    ELSE S

(* state.recent_messages.append(m) on the object ref *)
(* append that puts the message at the front of the list *)
append_front(H, ref, m) == [H EXCEPT ![ref] = <<m>> \o @]

(* append that rebinds the list to the new message alone *)
append_alone(H, ref, m) == [H EXCEPT ![ref] = <<m>>]

append(H, ref, m) == [H EXCEPT ![ref] = Append(@, m)]

(* the history the store holds for sid *)
History(sid) == heap[sessions[sid].state]

----------------------------------------------------------------------------
(* HTTP layer *)

Ok == [status |-> 200, detail |-> "ok"]

HTTPException(status_code, detail) == [status |-> status_code, detail |-> detail]

(* HTTPBearer followed by verify_api_key *)
verify_api_key(expected_api_key, token) ==
    IF token = "<absent>" THEN HTTPException(403, "Not authenticated")
    ELSE IF expected_api_key = "" THEN HTTPException(500, "PP_API_KEY not configured")
    ELSE IF token # expected_api_key THEN HTTPException(403, "Invalid API key")
    ELSE Ok

(* the header check with "is None" for "not": an empty value passes *)
get_session_from_header_is_none(hdr) ==
    IF hdr = NoHeader
    THEN HTTPException(400, "Missing X-Session-ID header")
    ELSE Ok

get_session_from_header(hdr) ==
    IF hdr = NoHeader \/ hdr = ""
    THEN HTTPException(400, "Missing X-Session-ID header")
    ELSE Ok

(* pydantic validation of the QueryRequest body *)
validate_body(body) ==
    IF body = InvalidBody THEN HTTPException(422, "Field required") ELSE Ok

(* what an authenticated query request is answered before its handler     *)
(* touches the store                                                       *)
QueryPrecheck(hdr, body) ==
    IF validate_body(body).status # 200 THEN validate_body(body)
    ELSE get_session_from_header(hdr)

----------------------------------------------------------------------------
(* Initial state *)

NoReq == [pc |-> "new", sid |-> "-", msg |-> "-", state |-> 0]

(* the answer the latest step of a handler sent, if it sent one: its       *)
(* status, its fields, the branch of the handler it came from and the time *)
(* it was sent                                                             *)
NoLast ==
    [op |-> "-", status |-> 0, detail |-> "-", session_id |-> "-",
     deleted |-> FALSE, response |-> "-", path |-> "-", timestamp |-> 0,
     keys |-> {}]

(* the keys of the JSON body a handler answers with *)
BodyKeys(endpoint) ==
    CASE endpoint = "health" ->
           IF app = "routers" THEN {"status", "timestamp", "version"}
           ELSE {"status"}
      [] endpoint \in {"create_session", "get_session"} -> {"session_id", "state"}
      [] endpoint = "delete_session" ->
           IF app = "routers" THEN {"deleted", "session_id", "timestamp"}
           ELSE {"deleted"}
      [] endpoint = "query" ->
           IF app = "routers"
           THEN {"response", "session_id", "timestamp", "processing_time_ms"}
           ELSE {"response"}
      [] OTHER -> {"detail"}

Init ==
    /\ clock = 0
    /\ sessions = << >>
    /\ heap = [i \in 1..MaxObjs |-> Free]
    /\ req = [r \in Reqs |-> NoReq]
    /\ last = NoLast
    /\ apiKey \in {ValidToken, ""}
    /\ app \in Apps

----------------------------------------------------------------------------
(* Time passes.  Only the age of a session relative to the expiry window   *)
(* matters, so the clock is read at 0, at the end of the first window and   *)
(* every hour from there on.                                                *)

NextReading(now) == IF now < EXPIRY_HOURS THEN EXPIRY_HOURS ELSE now + 1

Tick ==
    /\ clock < MaxClock
    /\ clock' = NextReading(clock)
    /\ UNCHANGED <<sessions, heap, req, last, apiKey, app>>

----------------------------------------------------------------------------
(* Session endpoints: app/routers/sessions.py, and app/main.py where the   *)
(* answer differs                                                          *)

(* a rejection that runs the expiry sweep of the store first *)
Reject_sweep(e) ==
    /\ last' = [NoLast EXCEPT !.status = e.status, !.detail = e.detail,
                              !.keys = BodyKeys("-")]
    /\ sessions' = cleanup_expired_sessions(sessions, clock)
    /\ heap' = Collect(heap, sessions', req)
    /\ UNCHANGED <<clock, req, apiKey, app>>

Reject(e) ==
    /\ last' = [NoLast EXCEPT !.status = e.status, !.detail = e.detail,
                              !.keys = BodyKeys("-")]
    /\ UNCHANGED <<clock, sessions, heap, req, apiKey, app>>

(* Depends(verify_api_key) runs before the handler of the session and      *)
(* query endpoints: a request it refuses is answered the same whichever of *)
(* them it was sent to                                                     *)
Unauthorized(token) ==
    /\ verify_api_key(apiKey, token) # Ok
    /\ Reject(verify_api_key(apiKey, token))

create_session(token) ==
    \E session_id \in UuidIds \ DOMAIN sessions :
        LET g == get_state(sessions, heap, session_id, clock)
        IN  /\ verify_api_key(apiKey, token) = Ok
            /\ HasRoom(sessions, heap, session_id, clock)
            /\ sessions' = g.sessions
            /\ heap' = Collect(g.heap, g.sessions, req)
            /\ last' = [NoLast EXCEPT
                          !.op = "create_session",
                          !.status = IF app = "routers" THEN 201 ELSE 200,
                          !.detail = "ok", !.session_id = session_id,
                          !.timestamp = clock,
                          !.keys = BodyKeys("create_session")]
            /\ UNCHANGED <<clock, req, apiKey, app>>

(* a GET that answers 404 for an id the store does not hold *)
get_session_strict(token, session_id) ==
    /\ verify_api_key(apiKey, token) = Ok
    /\ IF session_id \in DOMAIN sessions
       THEN /\ last' = [NoLast EXCEPT !.op = "get_session", !.status = 200,
                                      !.detail = "ok", !.session_id = session_id,
                                      !.timestamp = clock,
                                      !.keys = BodyKeys("get_session")]
            /\ UNCHANGED <<clock, sessions, heap, req, apiKey, app>>
       ELSE Reject(HTTPException(404, "Session not found or has expired"))

get_session(token, session_id) ==
    LET g == get_state(sessions, heap, session_id, clock)
    IN  /\ verify_api_key(apiKey, token) = Ok
        /\ HasRoom(sessions, heap, session_id, clock)
        /\ sessions' = g.sessions
        /\ heap' = Collect(g.heap, g.sessions, req)
        /\ last' = [NoLast EXCEPT !.op = "get_session", !.status = 200,
                                  !.detail = "ok", !.session_id = session_id,
                                  !.timestamp = clock,
                                  !.keys = BodyKeys("get_session")]
        /\ UNCHANGED <<clock, req, apiKey, app>>

delete_session_endpoint(token, session_id) ==
    LET S == delete_session(sessions, session_id)
    IN  /\ verify_api_key(apiKey, token) = Ok
        /\ sessions' = S
        /\ heap' = Collect(heap, S, req)
        /\ last' = [NoLast EXCEPT
                      !.op = "delete_session", !.status = 200,
                      !.detail = "ok", !.deleted = TRUE, !.timestamp = clock,
                      !.session_id = IF app = "routers" THEN session_id
                                     ELSE "-",
                      !.keys = BodyKeys("delete_session")]
        /\ UNCHANGED <<clock, req, apiKey, app>>

----------------------------------------------------------------------------
(* POST /api/query: process_query of app/routers/queries.py and query of   *)
(* app/main.py.  A handler runs on the event loop, so it is atomic between *)
(* two awaits: up to the call of b.Chat, from there to the call of         *)
(* b.AnswerAnalyticsQuestion, and from there to the return.                *)

(* the handler returns: its locals go out of scope *)
Finished(r) == [req EXCEPT ![r] = [NoReq EXCEPT !.pc = "done"]]

(* QueryResponse of the router; main.py answers {"response": ...} alone *)
QueryResponse(session_id, response, path) ==
    [NoLast EXCEPT !.op = "query", !.status = 200, !.detail = "ok",
                   !.session_id = IF app = "routers" THEN session_id ELSE "-",
                   !.response = response, !.path = path, !.timestamp = clock,
                   !.keys = BodyKeys("query")]

(* from the arrival of the request to the await of b.Chat; the request     *)
(* slots are taken in order, and a rejected request takes none             *)
(* (first a handler that calls b.Chat before it appends the user message)  *)
QueryStart_call_first(r, token, hdr, body) ==
    LET e == QueryPrecheck(hdr, body)
        g == get_state(sessions, heap, hdr, clock)
        R == [req EXCEPT ![r].pc = "chat", ![r].sid = hdr, ![r].msg = body,
                         ![r].state = g.ret]
    IN  /\ verify_api_key(apiKey, token) = Ok
        /\ req[r].pc = "new"
        /\ \A q \in Reqs : q < r => req[q].pc # "new"
        /\ IF e.status # 200
           THEN Reject(e)
           ELSE /\ HasRoom(sessions, heap, hdr, clock)
                /\ sessions' = g.sessions
                /\ req' = R
                /\ heap' = Collect(g.heap, g.sessions, R)
                /\ last' = NoLast
                /\ UNCHANGED <<clock, apiKey, app>>

QueryStart(r, token, hdr, body) ==
    LET e == QueryPrecheck(hdr, body)
        g == get_state(sessions, heap, hdr, clock)
        R == [req EXCEPT ![r].pc = "chat", ![r].sid = hdr, ![r].msg = body,
                         ![r].state = g.ret]
    IN  /\ verify_api_key(apiKey, token) = Ok
        /\ req[r].pc = "new"
        /\ \A q \in Reqs : q < r => req[q].pc # "new"
        /\ IF e.status # 200
           THEN Reject(e)
           ELSE /\ HasRoom(sessions, heap, hdr, clock)
                /\ sessions' = g.sessions
                /\ req' = R
                /\ heap' = Collect(append(g.heap, g.ret, Message("user", body)),
                                   g.sessions, R)
                /\ last' = NoLast
                /\ UNCHANGED <<clock, apiKey, app>>

(* state.recent_messages.append(response_message) and the 200 answer *)
Respond(r, content, path) ==
    LET R == Finished(r)
    IN  /\ req' = R
        /\ heap' = Collect(append(heap, req[r].state, Message("assistant", content)),
                           sessions, R)
        /\ last' = QueryResponse(req[r].sid, content, path)
        /\ UNCHANGED <<clock, sessions, apiKey, app>>

(* except Exception of process_query: the session is looked up again *)
RouterRecover(r) ==
    LET session_id == req[r].sid
        g == get_state(sessions, heap, session_id, clock)
        R == Finished(r)
    IN  /\ req' = R
        /\ last' = QueryResponse(session_id, ERROR_FALLBACK, "exception")
        /\ IF session_id # "unknown"
           THEN /\ HasRoom(sessions, heap, session_id, clock)
                /\ sessions' = g.sessions
                /\ heap' = Collect(append(g.heap, g.ret,
                                          Message("assistant", ERROR_FALLBACK)),
                                   g.sessions, R)
           ELSE /\ sessions' = sessions
                /\ heap' = Collect(heap, sessions, R)
        /\ UNCHANGED <<clock, apiKey, app>>

(* except Exception of query in main.py: the local state is appended to *)
MainRecover(r) == Respond(r, ERROR_FALLBACK, "exception")

(* an error recovery that calls b.Chat again instead of answering *)
Recover_retry(r) ==
    /\ req' = [req EXCEPT ![r].pc = "chat"]
    /\ last' = NoLast
    /\ UNCHANGED <<clock, sessions, heap, apiKey, app>>

Recover(r) == IF app = "routers" THEN RouterRecover(r) ELSE MainRecover(r)

(* the no-data branch answering with the text of the error recovery *)
NoDataText_as_error == ERROR_FALLBACK

NoDataText == IF app = "routers" THEN NO_DATA_FALLBACK ELSE MAIN_NO_DATA_FALLBACK

(* the else branch answering with the text of the no-data branch *)
UnexpectedText_as_no_data == NO_DATA_FALLBACK

UnexpectedText == IF app = "routers" THEN UNEXPECTED_FALLBACK ELSE ERROR_FALLBACK

ChatOutcomes == {"Message", "AnalyticsQuestion", "other", "raise"}

ResolverOutcomes == {"data", "None", "raise"}

(* b.Chat returns or raises; the resolver runs in the same atomic stretch *)
ChatReturns(r, outcome, analytics_data) ==
    /\ req[r].pc = "chat"
    /\ outcome = "AnalyticsQuestion" \/ analytics_data = "None"
    /\ CASE outcome = "Message" -> Respond(r, CHAT_REPLY, "direct")
         [] outcome = "other" -> Respond(r, UnexpectedText, "unexpected")
         [] outcome = "raise" -> Recover(r)
         [] outcome = "AnalyticsQuestion" ->
              CASE analytics_data = "None" -> Respond(r, NoDataText, "no_data")
                [] analytics_data = "raise" -> Recover(r)
                [] analytics_data = "data" ->
                     /\ req' = [req EXCEPT ![r].pc = "answer"]
                     /\ last' = NoLast
                     /\ UNCHANGED <<clock, sessions, heap, apiKey, app>>

AnswerOutcomes == {"Message", "raise"}

(* b.AnswerAnalyticsQuestion returns or raises *)
AnswerReturns(r, outcome) ==
    /\ req[r].pc = "answer"
    /\ IF outcome = "Message"
       THEN Respond(r, ANSWER_REPLY, "analytics")
       ELSE Recover(r)

Next ==
    \/ Tick
    \/ \E t \in Tokens : Unauthorized(t)
    \/ \E t \in Tokens : create_session(t)
    \/ \E t \in Tokens, sid \in SessionIds : get_session(t, sid)
    \/ \E t \in Tokens, sid \in SessionIds : delete_session_endpoint(t, sid)
    \/ \E r \in Reqs, t \in Tokens, hdr \in HeaderValues, b \in Bodies :
          QueryStart(r, t, hdr, b)
    \/ \E r \in Reqs, o \in ChatOutcomes, d \in ResolverOutcomes :
          ChatReturns(r, o, d)
    \/ \E r \in Reqs, o \in AnswerOutcomes : AnswerReturns(r, o)

Spec == Init /\ [][Next]_vars

(* only POST /api/query is served: no handler of a session endpoint runs *)
QueryNext ==
    \/ Tick
    \/ \E t \in Tokens : Unauthorized(t)
    \/ \E r \in Reqs, t \in Tokens, hdr \in HeaderValues, b \in Bodies :
          QueryStart(r, t, hdr, b)
    \/ \E r \in Reqs, o \in ChatOutcomes, d \in ResolverOutcomes :
          ChatReturns(r, o, d)
    \/ \E r \in Reqs, o \in AnswerOutcomes : AnswerReturns(r, o)

QuerySpec == Init /\ [][QueryNext]_vars

----------------------------------------------------------------------------
(* Every endpoint, request by request, within the first expiry window      *)

Endpoints == {"health", "create_session", "get_session", "delete_session", "query"}

(* tokens that differ from the key in case or in whitespace only *)
ApiTokens == Tokens \cup {"KEY", "key "}

(* the handler of the endpoint declares Depends(verify_api_key):           *)
(* health_check of app/routers/health.py does not                          *)
Protected(endpoint) == app = "main" \/ endpoint # "health"

(* a request to the endpoint that verify_api_key refuses *)
Denied(endpoint, token) ==
    LET e == verify_api_key(apiKey, token)
    IN  /\ Protected(endpoint)
        /\ e # Ok
        /\ last' = [NoLast EXCEPT !.op = endpoint, !.status = e.status,
                                  !.detail = e.detail, !.keys = BodyKeys("-")]
        /\ UNCHANGED <<clock, sessions, heap, req, apiKey, app>>

(* GET /api/health *)
health_check(token) ==
    /\ Protected("health") => verify_api_key(apiKey, token) = Ok
    /\ last' = [NoLast EXCEPT !.op = "health", !.status = 200, !.detail = "ok",
                              !.timestamp = clock, !.keys = BodyKeys("health")]
    /\ UNCHANGED <<clock, sessions, heap, req, apiKey, app>>

(* a request with the token is sent to the endpoint and answered, or, for  *)
(* a query, handed to the LLM                                              *)
Request(endpoint, token) ==
    \/ Denied(endpoint, token)
    \/ endpoint = "health" /\ health_check(token)
    \/ endpoint = "create_session" /\ create_session(token)
    \/ endpoint = "get_session" /\ \E sid \in SessionIds : get_session(token, sid)
    \/ endpoint = "delete_session"
          /\ \E sid \in SessionIds : delete_session_endpoint(token, sid)
    \/ endpoint = "query"
          /\ \E r \in Reqs, hdr \in HeaderValues, b \in Bodies :
                QueryStart(r, token, hdr, b)

ApiNext ==
    \/ \E e \in Endpoints, t \in ApiTokens : Request(e, t)
    \/ \E r \in Reqs, o \in ChatOutcomes, d \in ResolverOutcomes :
          ChatReturns(r, o, d)
    \/ \E r \in Reqs, o \in AnswerOutcomes : AnswerReturns(r, o)

ApiSpec == Init /\ [][ApiNext]_vars

----------------------------------------------------------------------------
(* A direct client of SessionStore: it calls the three methods with any    *)
(* argument, builds State objects and appends to the objects it holds; it  *)
(* keeps every reference, so no object is freed.                           *)

ClientHistories == {create_state, <<Message("user", "hello")>>}

StoreGetState(sid) ==
    LET g == get_state(sessions, heap, sid, clock)
    IN  /\ HasRoom(sessions, heap, sid, clock)
        /\ sessions' = g.sessions
        /\ heap' = g.heap
        /\ UNCHANGED <<clock, req, last, apiKey, app>>

StoreSetState(sid, ref) ==
    /\ ref \in (DOMAIN heap) \ FreeSlots(heap)
    /\ sessions' = set_state(sessions, sid, ref, clock)
    /\ UNCHANGED <<clock, heap, req, last, apiKey, app>>

StoreDeleteSession(sid) ==
    /\ sessions' = delete_session(sessions, sid)
    /\ UNCHANGED <<clock, heap, req, last, apiKey, app>>

ClientNewState(h) ==
    /\ FreeSlots(heap) # {}
    /\ heap' = [heap EXCEPT ![NewRef(heap)] = h]
    /\ UNCHANGED <<clock, sessions, req, last, apiKey, app>>

ClientAppend(ref, m) ==
    /\ ref \in (DOMAIN heap) \ FreeSlots(heap)
    /\ Len(heap[ref]) < MaxLen
    /\ heap' = append(heap, ref, m)
    /\ UNCHANGED <<clock, sessions, req, last, apiKey, app>>

StoreNext ==
    \/ Tick
    \/ \E sid \in SessionIds : StoreGetState(sid)
    \/ \E sid \in SessionIds, ref \in 1..MaxObjs : StoreSetState(sid, ref)
    \/ \E sid \in SessionIds : StoreDeleteSession(sid)
    \/ \E h \in ClientHistories : ClientNewState(h)
    \/ \E ref \in 1..MaxObjs : ClientAppend(ref, Message("user", "hello"))

StoreSpec == Init /\ [][StoreNext]_vars

----------------------------------------------------------------------------
(* Claims about SessionStore, checked under StoreSpec *)

(* the objects some entry of the store references *)
Stored == {sessions[x].state : x \in DOMAIN sessions}

(* C3: get_state(id) for an id the store does not hold after the sweep      *)
(* (never seen, deleted, or just removed as expired) inserts id and returns *)
(* a new State object whose history is exactly the assistant welcome        *)
(* message; the object of an earlier session with that id is not reused.    *)
C3_FreshSession ==
    [][\A sid \in SessionIds :
         (/\ StoreGetState(sid)
          /\ sid \notin DOMAIN cleanup_expired_sessions(sessions, clock))
         => /\ sid \in DOMAIN sessions'
            /\ heap'[sessions'[sid].state] = <<Message("assistant", WELCOME)>>
            /\ sessions'[sid].created_at = clock
            /\ heap[sessions'[sid].state] = Free
            /\ sid \in DOMAIN sessions =>
                  sessions'[sid].state # sessions[sid].state]_vars

(* an id is stored again with only the welcome message, at hour 5, while   *)
(* the object of an earlier session, which had grown, is no longer stored  *)
C3_Witness ==
    /\ clock > EXPIRY_HOURS
    /\ \E sid \in DOMAIN sessions :
          /\ sessions[sid].created_at = clock
          /\ History(sid) = <<Message("assistant", WELCOME)>>
    /\ \E ref \in (DOMAIN heap) \ Stored :
          /\ Len(heap[ref]) > 1
          /\ heap[ref][1] = Message("assistant", WELCOME)

(* C5: get_state sweeps first: when it returns, no stored session was      *)
(* created more than 4 hours ago (the one it returns included); the sweep  *)
(* removes exactly the sessions older than 4 hours, a session aged exactly *)
(* 4 hours or less keeps its state and its creation timestamp.             *)
C5_SweepOnGet ==
    [][\A sid \in SessionIds :
         StoreGetState(sid)
         => /\ \A x \in DOMAIN sessions' :
                  clock - sessions'[x].created_at <= EXPIRY_HOURS
            /\ \A x \in DOMAIN sessions :
                  IF clock - sessions[x].created_at > EXPIRY_HOURS
                  THEN x \in DOMAIN sessions' => (x = sid /\ sessions'[x] # sessions[x])
                  ELSE /\ x \in DOMAIN sessions'
                       /\ sessions'[x] = sessions[x]
                       /\ heap'[sessions'[x].state] = heap[sessions[x].state]
            /\ (DOMAIN sessions') \ {sid} \subseteq DOMAIN sessions]_vars

(* after a sweep at hour 5: a session created at hour 0 is gone, its object *)
(* is no longer stored, and a session created at hour 4 is kept            *)
C5_Witness ==
    /\ clock = EXPIRY_HOURS + 1
    /\ \E x \in DOMAIN sessions : clock - sessions[x].created_at = 1
    /\ \E y \in SessionIds : y \notin DOMAIN sessions
    /\ \E ref \in (DOMAIN heap) \ Stored :
          /\ Len(heap[ref]) > 0
          /\ heap[ref][1] = Message("assistant", WELCOME)

----------------------------------------------------------------------------
(* Claims about the HTTP application, checked under Spec *)

Running(r) == req[r].pc \in {"chat", "answer"}

UserCount(h) == Cardinality({i \in DOMAIN h : h[i].role = "user"})

(* request r returns its 200 answer in this step *)
Returns(r) == Running(r) /\ req'[r].pc = "done"

(* the entry of r's session is the one r was given and the sweep keeps it *)
Intact(r) ==
    /\ req[r].sid \in DOMAIN sessions
    /\ sessions[req[r].sid].state = req[r].state
    /\ clock - sessions[req[r].sid].created_at <= EXPIRY_HOURS

(* C1: an accepted query appends exactly two messages to the history of    *)
(* its session: the user message when it starts, one assistant message     *)
(* when it returns, and the response returned is the content of that       *)
(* assistant message (here for a session that is neither deleted nor       *)
(* expired while the query runs).                                          *)
C1_TwoAppends ==
    [][\A r \in Reqs :
         /\ (req[r].pc = "new" /\ req'[r].pc = "chat")
               => LET sid == req'[r].sid
                      before == IF sid \in DOMAIN cleanup_expired_sessions(sessions, clock)
                                THEN History(sid)
                                ELSE <<Message("assistant", WELCOME)>>
                  IN  /\ sid \in DOMAIN sessions'
                      /\ heap'[sessions'[sid].state]
                            = Append(before, Message("user", req'[r].msg))
         /\ (Returns(r) /\ Intact(r))
               => LET sid == req[r].sid
                  IN  /\ sid \in DOMAIN sessions'
                      /\ last'.status = 200
                      /\ heap'[sessions'[sid].state]
                            = Append(History(sid),
                                     Message("assistant", last'.response))]_vars

(* C2: whatever the session id, when the LLM client or the resolver raises *)
(* the request is answered 200 with the "having trouble" text, and that    *)
(* text is appended to the history of the session as an assistant message  *)
(* after the user message (here for a session that is neither deleted nor  *)
(* expired while the query runs).                                          *)
C2_ExceptionRecorded ==
    [][\A r \in Reqs :
         (Returns(r) /\ last'.path = "exception" /\ Intact(r))
         => LET sid == req[r].sid
            IN  /\ last'.status = 200
                /\ last'.response \in HavingTrouble
                /\ sid \in DOMAIN sessions'
                /\ Message("user", req[r].msg) \in Range(History(sid))
                /\ heap'[sessions'[sid].state]
                      = Append(History(sid),
                               Message("assistant", last'.response))]_vars

(* C4: as long as the entry of a session id stays in the store (it is not  *)
(* deleted and not removed as expired), the history get_state returns for  *)
(* it only grows at the end: the history before a step is a prefix of the  *)
(* history after it, and a get_state on its own (GET /api/sessions/{id})   *)
(* adds nothing to it.                                                     *)
C4_AppendOnly ==
    [][\A sid \in DOMAIN sessions :
         (sid \in DOMAIN sessions' /\ clock - sessions[sid].created_at <= EXPIRY_HOURS)
         => /\ sessions'[sid].state = sessions[sid].state
            /\ IsPrefix(History(sid), heap'[sessions'[sid].state])
            /\ (last'.op = "get_session" /\ last'.session_id = sid)
                  => heap'[sessions'[sid].state] = History(sid)]_vars

(* a session that went through two exchanges: five messages *)
C4_Witness ==
    \E sid \in DOMAIN sessions :
        /\ Len(History(sid)) = 5
        /\ History(sid)[2].role = "user"
        /\ History(sid)[4].role = "user"
        /\ \A r \in Reqs : req[r].pc = "done"

(* C7: a session that was accessed (created or read through a session      *)
(* endpoint, or used by a query that was answered) at most 4 hours ago is  *)
(* not removed by the expiry sweep: the next step keeps its entry and its  *)
(* history.                                                                *)
C7_InactivityExpiry ==
    [][\A sid \in DOMAIN sessions :
         (/\ last.op \in {"create_session", "get_session", "query"}
          /\ last.session_id = sid
          /\ clock - last.timestamp <= EXPIRY_HOURS
          /\ \A t \in Tokens : ~delete_session_endpoint(t, sid))
         => /\ sid \in DOMAIN sessions'
            /\ sessions'[sid].state = sessions[sid].state
            /\ IsPrefix(History(sid), heap'[sessions'[sid].state])]_vars

(* C8: delete_session never fails and is idempotent: after DELETE the id   *)
(* is absent whether or not it was present, every other entry and its      *)
(* history are as before, deleting again changes nothing, and the answer   *)
(* is 200 with deleted = true and the same session id.                     *)
C8_DeleteIdempotent ==
    [][\A sid \in SessionIds :
         delete_session_endpoint(ValidToken, sid)
         => /\ sid \notin DOMAIN sessions'
            /\ DOMAIN sessions' = (DOMAIN sessions) \ {sid}
            /\ \A x \in DOMAIN sessions' :
                  /\ sessions'[x] = sessions[x]
                  /\ heap'[sessions'[x].state] = heap[sessions[x].state]
            /\ delete_session(sessions', sid) = sessions'
            /\ last'.status = 200
            /\ last'.deleted
            /\ last'.session_id = sid]_vars

(* C9: when a query returns 200 for session id s, the store holds under s  *)
(* a history with the user message of the request followed by the          *)
(* assistant message that was returned.                                    *)
C9_ExchangePersisted ==
    [][\A r \in Reqs :
         Returns(r)
         => LET sid == req[r].sid
            IN  /\ last'.status = 200
                /\ sid \in DOMAIN sessions'
                /\ \E i \in 1..Len(heap'[sessions'[sid].state]) - 1 :
                      /\ heap'[sessions'[sid].state][i] = Message("user", req[r].msg)
                      /\ heap'[sessions'[sid].state][Len(heap'[sessions'[sid].state])]
                            = Message("assistant", last'.response)]_vars

(* Checked under QuerySpec, where only query handlers run.                 *)
(* C10: no lock ties a running request to the entry of its session id.  A  *)
(* running request always finds its own user message in the State object   *)
(* it holds, so its append is missing from the history stored for the id   *)
(* exactly when the store holds another object for the id: the entry was   *)
(* removed and written again by a get_state in between, and the later      *)
(* write wins.                                                             *)
C10_LostByReplacement ==
    \A r \in Reqs :
        Running(r)
        => LET ref == req[r].state
               sharers == {q \in Reqs : Running(q) /\ req[q].state = ref}
           IN  /\ Message("user", req[r].msg) \in Range(heap[ref])
               /\ UserCount(heap[ref]) >= Cardinality(sharers)
               /\ (/\ req[r].sid \in DOMAIN sessions
                   /\ UserCount(History(req[r].sid)) < Cardinality(sharers))
                     => sessions[req[r].sid].state # ref

(* two requests run on the same id, the store holds the object of one of   *)
(* them, and the user message the other appended is not in it              *)
C10_Witness ==
    \E r, q \in Reqs :
        /\ r # q
        /\ Running(r) /\ Running(q)
        /\ req[r].sid = req[q].sid
        /\ req[r].sid \in DOMAIN sessions
        /\ sessions[req[r].sid].state = req[q].state
        /\ req[r].state # req[q].state
        /\ History(req[r].sid) = <<Message("assistant", WELCOME),
                                   Message("user", req[q].msg)>>

(* the running requests that use session id sid, r included *)
OnSession(sid) == {q \in Reqs : Running(q) /\ req[q].sid = sid}

(* C11 as stated: when concurrent queries on one session id are each       *)
(* answered by a direct Message, every one returns 200 and its reply is    *)
(* added to the history stored for the id, which holds the user message    *)
(* of every request sent to the id.                                        *)
C11_ConcurrentQueries ==
    [][\A r \in Reqs :
         (Returns(r) /\ last'.path = "direct")
         => LET sid == req[r].sid
            IN  /\ last'.status = 200
                /\ last'.response = CHAT_REPLY
                /\ sid \in DOMAIN sessions'
                /\ heap'[sessions'[sid].state]
                      = Append(History(sid), Message("assistant", CHAT_REPLY))
                /\ UserCount(heap'[sessions'[sid].state])
                      >= Cardinality(OnSession(sid))]_vars

(* C11: when concurrent queries on one session id are each answered by a   *)
(* direct Message, every one returns 200; the reply of a request is added  *)
(* at the end of the history stored for the id, which holds the user       *)
(* message of every request running on the same State object, provided the *)
(* entry the request was given is still stored and not older than 4 hours. *)
C11_ConcurrentQueriesIntact ==
    [][\A r \in Reqs :
         (Returns(r) /\ last'.path = "direct")
         => /\ last'.status = 200
            /\ last'.response = CHAT_REPLY
            /\ Intact(r)
                  => LET sid == req[r].sid
                         sharers == {q \in OnSession(sid) : req[q].state = req[r].state}
                     IN  /\ sid \in DOMAIN sessions'
                         /\ heap'[sessions'[sid].state]
                               = Append(History(sid),
                                        Message("assistant", CHAT_REPLY))
                         /\ UserCount(heap'[sessions'[sid].state])
                               >= Cardinality(sharers)]_vars

(* two queries ran together on one id and both were answered directly:     *)
(* welcome, two user messages, two replies                                 *)
C11_Witness ==
    /\ \A r \in Reqs : req[r].pc = "done"
    /\ last.path = "direct"
    /\ \E sid \in DOMAIN sessions :
          History(sid) = <<Message("assistant", WELCOME),
                           Message("user", "hello"), Message("user", "hello"),
                           Message("assistant", CHAT_REPLY),
                           Message("assistant", CHAT_REPLY)>>

----------------------------------------------------------------------------
(* Checked under StoreSpec.                                                *)

(* the State objects the client holds *)
Held == (DOMAIN heap) \ FreeSlots(heap)

(* the store and the heap after one call on session id a: get_state(a),    *)
(* set_state(a, ref) for a State the client holds, or delete_session(a)    *)
AfterOnId(a) ==
    {[sessions |-> set_state(sessions, a, ref, clock), heap |-> heap] : ref \in Held}
        \cup {[sessions |-> delete_session(sessions, a), heap |-> heap]}
        \cup (IF HasRoom(sessions, heap, a, clock)
              THEN {[sessions |-> get_state(sessions, heap, a, clock).sessions,
                     heap |-> get_state(sessions, heap, a, clock).heap]}
              ELSE {})

(* the history get_state(b) returns from the store S and the heap H *)
GetResult(S, H, b) ==
    LET g == get_state(S, H, b, clock)
    IN  g.heap[g.ret]

(* the history get_state(b) returns after set_state(b, ref) *)
SetThenGet(S, H, b, ref) == GetResult(set_state(S, b, ref, clock), H, b)

(* the operations on b give the same results from the store as it is and   *)
(* from the store post: get_state(b), get_state(b) after set_state(b, ref) *)
(* for every State the client holds, and delete_session(b) (compared where *)
(* the heap of the model has room for both)                                *)
SameResults(b, post) ==
    /\ (HasRoom(sessions, heap, b, clock) /\ HasRoom(post.sessions, post.heap, b, clock))
          => GetResult(post.sessions, post.heap, b) = GetResult(sessions, heap, b)
    /\ \A ref \in Held :
          (/\ HasRoom(set_state(sessions, b, ref, clock), heap, b, clock)
           /\ HasRoom(set_state(post.sessions, b, ref, clock), post.heap, b, clock))
          => SetThenGet(post.sessions, post.heap, b, ref)
                = SetThenGet(sessions, heap, b, ref)
    /\ b \notin DOMAIN delete_session(post.sessions, b)

----------------------------------------------------------------------------
(* SessionStore shared by request threads.  The handlers of the session    *)
(* endpoints are plain functions, which the framework runs in a thread     *)
(* pool, and the store has no lock: a thread can be suspended inside       *)
(* get_state, between the iteration of _cleanup_expired_sessions and each  *)
(* of its del statements, while other threads work on the same map.  Here  *)
(* req holds one record for each thread.                                   *)

Threads == Reqs

Idle ==
    [pc |-> "idle", sid |-> "-", state |-> 0, now |-> 0, seen |-> << >>,
     expired |-> {}]

(* objects referenced by the store S or held by a thread *)
ThreadReferenced(S, R) ==
    {S[sid].state : sid \in DOMAIN S} \cup {R[t].state : t \in DOMAIN R}

ThreadCollect(H, S, R) ==
    [i \in DOMAIN H |-> IF i \in ThreadReferenced(S, R) THEN H[i] ELSE Free]

ThreadInit ==
    /\ clock = 0
    /\ sessions = << >>
    /\ heap = [i \in 1..MaxObjs |-> Free]
    /\ req = [t \in Threads |-> Idle]
    /\ last = NoLast
    /\ apiKey = ValidToken
    /\ app \in Apps

(* get_state is entered, the cutoff is computed from the time now and the  *)
(* iterator over self._sessions.items() is created on the map as it is;    *)
(* over an empty map the iteration ends at once                            *)
SweepBegin(t, session_id) ==
    LET R == [req EXCEPT ![t] = [Idle EXCEPT !.pc = IF sessions = << >> THEN "del"
                                                    ELSE "scan",
                                             !.sid = session_id,
                                             !.now = clock, !.seen = sessions]]
    IN  /\ req[t].pc = "idle"
        /\ req' = R
        /\ heap' = ThreadCollect(heap, sessions, R)
        /\ UNCHANGED <<clock, sessions, last, apiKey, app>>

(* the iteration ends.  The thread can be suspended after an entry, and    *)
(* the iterator of a dict raises RuntimeError when the size of the dict    *)
(* has changed since it was created; with the size unchanged the entries   *)
(* it yielded are those of the map at some moment of the iteration: the    *)
(* list is built from the map as it was or as it is                        *)
SweepScan(t) ==
    /\ req[t].pc = "scan"
    /\ IF Cardinality(DOMAIN sessions) # Cardinality(DOMAIN req[t].seen)
       THEN req' = [req EXCEPT ![t].pc = "raised", ![t].seen = << >>]
       ELSE \E S \in {req[t].seen, sessions} :
               req' = [req EXCEPT ![t].pc = "del", ![t].seen = << >>,
                                  ![t].expired = Expired(S, req[t].now)]
    /\ UNCHANGED <<clock, sessions, heap, last, apiKey, app>>

(* del self._sessions[sid] for one collected id: KeyError when another     *)
(* thread has removed the id in the meantime                               *)
SweepDel(t, x) ==
    /\ req[t].pc = "del"
    /\ x \in req[t].expired
    /\ IF x \in DOMAIN sessions
       THEN LET S == [y \in (DOMAIN sessions) \ {x} |-> sessions[y]]
                R == [req EXCEPT ![t].expired = @ \ {x}]
            IN  /\ sessions' = S
                /\ req' = R
                /\ heap' = ThreadCollect(heap, S, R)
       ELSE /\ req' = [req EXCEPT ![t].pc = "raised", ![t].expired = {}]
            /\ UNCHANGED <<sessions, heap>>
    /\ UNCHANGED <<clock, last, apiKey, app>>

(* lines 21-23 of get_state: insert the id if it is absent, return its state *)
Lookup(t) ==
    LET session_id == req[t].sid
        ref == NewRef(heap)
        present == session_id \in DOMAIN sessions
        S == IF present THEN sessions
             ELSE [x \in (DOMAIN sessions) \cup {session_id} |->
                      IF x = session_id THEN SessionData(ref, clock)
                      ELSE sessions[x]]
    IN  /\ req[t].pc = "del"
        /\ req[t].expired = {}
        /\ present \/ FreeSlots(heap) # {}
        /\ sessions' = S
        /\ heap' = IF present THEN heap ELSE [heap EXCEPT ![ref] = initial_state]
        /\ req' = [req EXCEPT ![t].pc = "idle", ![t].now = 0,
                              ![t].state = S[session_id].state]
        /\ UNCHANGED <<clock, last, apiKey, app>>

(* set_state with the state the thread holds *)
ThreadSetState(t, session_id) ==
    /\ req[t].pc = "idle"
    /\ req[t].state # 0
    /\ sessions' = set_state(sessions, session_id, req[t].state, clock)
    /\ heap' = ThreadCollect(heap, sessions', req)
    /\ UNCHANGED <<clock, req, last, apiKey, app>>

ThreadDeleteSession(t, session_id) ==
    /\ req[t].pc = "idle"
    /\ sessions' = delete_session(sessions, session_id)
    /\ heap' = ThreadCollect(heap, sessions', req)
    /\ UNCHANGED <<clock, req, last, apiKey, app>>

ThreadNext ==
    \/ Tick
    \/ \E t \in Threads, sid \in SessionIds : SweepBegin(t, sid)
    \/ \E t \in Threads : SweepScan(t)
    \/ \E t \in Threads, x \in SessionIds : SweepDel(t, x)
    \/ \E t \in Threads : Lookup(t)
    \/ \E t \in Threads, sid \in SessionIds : ThreadSetState(t, sid)
    \/ \E t \in Threads, sid \in SessionIds : ThreadDeleteSession(t, sid)

ThreadSpec == ThreadInit /\ [][ThreadNext]_vars

(* C13: get_state has no error outcome: no thread that called it ends with *)
(* an exception, whatever the other threads do to the shared map while its *)
(* sweep is running.                                                       *)
C13_GetStateNeverRaises == \A t \in Threads : req[t].pc # "raised"

----------------------------------------------------------------------------
(* Claims about authentication and the answers of the endpoints, checked   *)
(* under ApiSpec                                                           *)

(* C14: on every endpoint a request whose bearer token differs from the    *)
(* configured key is answered 403 'Invalid API key', whatever its body and *)
(* its other headers, and no handler runs; a token that differs from the   *)
(* key in case or in whitespace only is a different token.                 *)
C14_WrongToken ==
    [][\A e \in Endpoints, t \in ApiTokens :
         (/\ apiKey # ""
          /\ t \notin {"<absent>", apiKey}
          /\ Request(e, t))
         => /\ last'.op = e
            /\ last'.status = 403
            /\ last'.detail = "Invalid API key"
            /\ UNCHANGED <<sessions, heap, req>>]_vars

(* C15: GET /api/health goes through verify_api_key like every other       *)
(* endpoint: a request it refuses (no Authorization header or a wrong key: *)
(* 403, key not configured: 500) gets that answer, and a request with the  *)
(* correct key gets 200 with status, timestamp and version.                *)
C15_HealthRequiresKey ==
    [][\A t \in ApiTokens :
         Request("health", t)
         => LET e == verify_api_key(apiKey, t)
            IN  /\ last'.op = "health"
                /\ last'.status = e.status
                /\ e # Ok => last'.detail = e.detail
                /\ e = Ok => {"status", "timestamp", "version"} \subseteq last'.keys]_vars

(* C16: when PP_API_KEY is unset or empty, every request that presents a   *)
(* bearer credential is answered 500 'PP_API_KEY not configured' whatever  *)
(* the token, on every endpoint, and no handler runs.                      *)
C16_KeyNotConfigured ==
    [][\A e \in Endpoints, t \in ApiTokens :
         (/\ apiKey = ""
          /\ t # "<absent>"
          /\ Request(e, t))
         => /\ last'.op = e
            /\ last'.status = 500
            /\ last'.detail = "PP_API_KEY not configured"
            /\ UNCHANGED <<sessions, heap, req>>]_vars

(* C18: POST /api/sessions with a valid key answers 201 with a session id  *)
(* the store did not hold, stored with a state of exactly the welcome      *)
(* message, and a GET /api/sessions/{id} that follows returns that history. *)
C18_CreateSession ==
    [][create_session(ValidToken)
         => LET sid == last'.session_id
            IN  /\ last'.status = 201
                /\ last'.keys = {"session_id", "state"}
                /\ sid \in UuidIds \ DOMAIN sessions
                /\ sid \in DOMAIN sessions'
                /\ heap'[sessions'[sid].state] = <<Message("assistant", WELCOME)>>
                /\ GetResult(sessions', heap', sid)
                      = <<Message("assistant", WELCOME)>>]_vars

----------------------------------------------------------------------------
(* Claims about the query path, checked under QuerySpec *)

MissingHeader == {"", NoHeader}

(* C17 as stated: an authenticated POST /api/query whose X-Session-ID      *)
(* header is missing or empty is answered 400 'Missing X-Session-ID        *)
(* header', the request reaches neither the store nor the LLM client.      *)
C17_MissingHeader ==
    [][\A r \in Reqs, hdr \in MissingHeader, b \in Bodies :
         QueryStart(r, ValidToken, hdr, b)
         => /\ last'.status = 400
            /\ last'.detail = "Missing X-Session-ID header"
            /\ UNCHANGED <<sessions, heap, req>>]_vars

(* C17: an authenticated POST /api/query whose body passes validation and  *)
(* whose X-Session-ID header is missing or empty is answered 400 'Missing  *)
(* X-Session-ID header'; the error is not turned into the 200 fallback,    *)
(* nothing is stored and no request waits for the LLM client.              *)
C17_MissingHeaderValidBody ==
    [][\A r \in Reqs, hdr \in MissingHeader, b \in UserTexts :
         QueryStart(r, ValidToken, hdr, b)
         => /\ last'.status = 400
            /\ last'.detail = "Missing X-Session-ID header"
            /\ last'.response = "-"
            /\ last'.keys = {"detail"}
            /\ UNCHANGED <<sessions, heap, req>>
            /\ \A q \in Reqs : req'[q].sid \notin MissingHeader]_vars

(* a query was refused for its header after another one was accepted: the  *)
(* accepted one still waits for the LLM client, the history of its session *)
(* holds its user message only                                             *)
C17_Witness ==
    /\ last.status = 400
    /\ last.detail = "Missing X-Session-ID header"
    /\ req[1].pc = "chat"
    /\ req[2].pc = "new"
    /\ DOMAIN sessions = {req[1].sid}
    /\ Len(History(req[1].sid)) = 2

(* the step appends the assistant message text to the State object ref    *)
(* and leaves the store and every other stored history as they were        *)
AppendsTo(ref, text) ==
    /\ sessions' = sessions
    /\ \A x \in DOMAIN sessions :
          heap'[sessions[x].state]
             = IF sessions[x].state = ref
               THEN Append(History(x), Message("assistant", text))
               ELSE History(x)

(* C19: when Chat returns an AnalyticsQuestion and the resolver returns no *)
(* data, the query is answered 200 with the "don't have access to the      *)
(* analytics data needed" text, that text is appended as an assistant      *)
(* message to the history of the State the request was given (the stored   *)
(* history of the session grows by exactly that message), and the request  *)
(* ends there: it never waits for AnswerAnalyticsQuestion.                 *)
C19_NoDataFallback ==
    [][\A r \in Reqs :
         ChatReturns(r, "AnalyticsQuestion", "None")
         => /\ last'.status = 200
            /\ last'.response \in NoAnalyticsAccess
            /\ req[r].pc = "chat" /\ req'[r].pc = "done"
            /\ \A q \in Reqs : req'[q].pc = "answer" => req[q].pc = "answer"
            /\ AppendsTo(req[r].state, last'.response)]_vars

(* a query ended on the no-data branch: welcome, user message, fallback *)
C19_Witness ==
    /\ last.path = "no_data"
    /\ last.status = 200
    /\ \E sid \in DOMAIN sessions :
          History(sid) = <<Message("assistant", WELCOME), Message("user", "hello"),
                           Message("assistant", NoDataText)>>

(* C20: when Chat returns a value that is neither a Message nor an         *)
(* AnalyticsQuestion, the query is answered 200 with a "having trouble     *)
(* processing your request" text, that text is appended as an assistant    *)
(* message to the history of the State the request was given, and the      *)
(* request ends there: the resolver has no part in the step and the        *)
(* request never waits for AnswerAnalyticsQuestion.                        *)
C20_UnexpectedFallback ==
    [][\A r \in Reqs :
         ChatReturns(r, "other", "None")
         => /\ last'.status = 200
            /\ last'.response \in HavingTrouble
            /\ req[r].pc = "chat" /\ req'[r].pc = "done"
            /\ \A q \in Reqs : req'[q].pc = "answer" => req[q].pc = "answer"
            /\ AppendsTo(req[r].state, last'.response)]_vars

(* a query ended on the else branch: welcome, user message, fallback *)
C20_Witness ==
    /\ last.path = "unexpected"
    /\ last.status = 200
    /\ \E sid \in DOMAIN sessions :
          History(sid) = <<Message("assistant", WELCOME), Message("user", "hello"),
                           Message("assistant", UnexpectedText)>>

(* the positions a request can move between: "chat" is the one call of    *)
(* b.Chat, "answer" the one call of b.AnswerAnalyticsQuestion              *)
CallOrder ==
    {<<"new", "chat">>, <<"chat", "answer">>, <<"chat", "done">>,
     <<"answer", "done">>}

(* the LLM client or the resolver fails for request r in this step *)
Fails(r) ==
    \/ ChatReturns(r, "raise", "None")
    \/ ChatReturns(r, "AnalyticsQuestion", "raise")
    \/ AnswerReturns(r, "raise")

(* C21: a query request calls Chat exactly once and AnswerAnalyticsQuestion *)
(* at most once, the latter only when Chat returned an AnalyticsQuestion   *)
(* and the resolver returned data; a request never goes back to a call it  *)
(* has made, and when either call or the resolver fails the request        *)
(* returns at once, with no further call.                                  *)
C21_AtMostTwoCalls ==
    [][\A r \in Reqs :
         /\ req'[r].pc # req[r].pc => <<req[r].pc, req'[r].pc>> \in CallOrder
         /\ (req[r].pc = "chat" /\ req'[r].pc = "answer")
               => ChatReturns(r, "AnalyticsQuestion", "data")
         /\ \A o \in ChatOutcomes, d \in ResolverOutcomes :
               (ChatReturns(r, o, d) /\ ~(o = "AnalyticsQuestion" /\ d = "data"))
               => req'[r].pc = "done"
         /\ \A o \in AnswerOutcomes : AnswerReturns(r, o) => req'[r].pc = "done"
         /\ Fails(r) => /\ req'[r].pc = "done"
                        /\ last'.status = 200
                        /\ last'.response \in HavingTrouble]_vars

(* two requests have returned: one after both calls, by the analytics      *)
(* path, the other after a failure                                         *)
C21_Witness ==
    /\ \A r \in Reqs : req[r].pc = "done"
    /\ \E sid \in DOMAIN sessions :
          History(sid) = <<Message("assistant", WELCOME), Message("user", "hello"),
                           Message("assistant", ANSWER_REPLY),
                           Message("user", "hello"),
                           Message("assistant", ERROR_FALLBACK)>>

----------------------------------------------------------------------------
(* get_analytics_data_for_category of app/analytics_loader.py, run on a    *)
(* category and a directory of report files.  Here req holds the locals of *)
(* the call and last the value it returns.  A text is a sequence of        *)
(* pieces; a file with text holds one piece, its own name, so that the     *)
(* order of the files shows in the result.                                 *)

AnalyticsCategory ==
    {"CONTENT", "EVENTS", "REGISTRATIONS", "NEIGHBORHOODS", "ENGAGEMENT", "USERS"}

(* a value the match statement has no case for *)
Unrecognized == "OTHER"

filenames(analytics_category) ==
    CASE analytics_category = "CONTENT" -> <<"content_creation.md">>
      [] analytics_category = "EVENTS" -> <<"upcoming_events.md">>
      [] analytics_category = "REGISTRATIONS" ->
           <<"new_user_stats.md", "user_registration_trends.md">>
      [] analytics_category = "NEIGHBORHOODS" -> <<"neighborhood_distribution.md">>
      [] analytics_category = "ENGAGEMENT" ->
           <<"post_engagement.md", "time_by_section.md", "time_by_user_type.md",
             "push_notifications.md", "search_behavior.md", "app_activity_time.md">>
      [] analytics_category = "USERS" ->
           <<"active_users.md", "top_users.md", "onboarding_performance.md",
             "navigation_patterns.md">>
      [] OTHER -> << >>

(* a file of the directory: absent, present but open or read raises,       *)
(* present and empty, present with text                                    *)
FileStatus == {"missing", "error", "empty", "text"}

(* f.read() of a file that can be read *)
read(filename, status) == IF status = "text" THEN <<filename>> ELSE << >>

BLANK_LINE == "\n\n"

(* a join that puts nothing between the parts *)
RECURSIVE join_no_separator(_, _)
join_no_separator(sep, parts) ==
    IF parts = << >> THEN << >>
    ELSE Head(parts) \o join_no_separator(sep, Tail(parts))

(* sep.join(parts) *)
RECURSIVE join(_, _)
join(sep, parts) ==
    IF parts = << >> THEN << >>
    ELSE IF Len(parts) = 1 THEN Head(parts)
    ELSE Head(parts) \o <<sep>> \o join(sep, Tail(parts))

(* the values the function returns: None, or a text *)
None == [none |-> TRUE, text |-> << >>]

Text(t) == [none |-> FALSE, text |-> t]

LoaderInit ==
    /\ clock = 0
    /\ sessions = << >>
    /\ heap = [i \in 1..MaxObjs |-> Free]
    /\ last = NoLast
    /\ apiKey = ValidToken
    /\ app = "routers"
    /\ \E c \in AnalyticsCategory \cup {Unrecognized} :
          \E files \in [Range(filenames(c)) -> FileStatus] :
             req = [pc |-> "match", category |-> c, files |-> files, i |-> 1,
                    content_parts |-> << >>]

(* the match statement: the file names of the category, or return None *)
Match ==
    /\ req.pc = "match"
    /\ IF req.category \in AnalyticsCategory
       THEN req' = [req EXCEPT !.pc = "loop"] /\ UNCHANGED last
       ELSE req' = [req EXCEPT !.pc = "returned"] /\ last' = None
    /\ UNCHANGED <<clock, sessions, heap, apiKey, app>>

(* one turn of the loop over the file names: a file that does not exist is *)
(* passed over, an exception of open or read is caught and the loop goes   *)
(* on, the content of any other file is appended to content_parts          *)
LoadFile ==
    LET filename == filenames(req.category)[req.i]
        status == req.files[filename]
    IN  /\ req.pc = "loop"
        /\ req.i <= Len(filenames(req.category))
        /\ req' = [req EXCEPT
                     !.i = @ + 1,
                     !.content_parts =
                        IF status \in {"missing", "error"} THEN @
                        ELSE Append(@, read(filename, status))]
        /\ UNCHANGED <<clock, sessions, heap, last, apiKey, app>>

(* after the loop: the joined parts if there is any part, else None *)
Return ==
    /\ req.pc = "loop"
    /\ req.i > Len(filenames(req.category))
    /\ req' = [req EXCEPT !.pc = "returned"]
    /\ last' = IF req.content_parts # << >>
               THEN Text(join(BLANK_LINE, req.content_parts))
               ELSE None
    /\ UNCHANGED <<clock, sessions, heap, apiKey, app>>

LoaderNext == Match \/ LoadFile \/ Return

LoaderSpec == LoaderInit /\ [][LoaderNext]_vars

(* the files of the category that can be read, in the order of the table *)
ReadableFiles ==
    LET readable(f) == req.files[f] \in {"empty", "text"}
    IN  SelectSeq(filenames(req.category), readable)

(* the contents of the files names[1..n], each followed by a blank line    *)
(* except the last of names                                                *)
RECURSIVE Concatenation(_, _)
Concatenation(names, n) ==
    IF n = 0 THEN << >>
    ELSE Concatenation(names, n - 1)
            \o read(names[n], req.files[names[n]])
            \o (IF n < Len(names) THEN <<BLANK_LINE>> ELSE << >>)

(* C22 as stated: the function returns None for an unrecognized category   *)
(* and for a category none of whose files can be read; with at least one   *)
(* readable file it returns a non-empty text, the contents of the readable *)
(* files in table order joined by a blank line.                            *)
C22_Resolver ==
    req.pc = "returned"
    => IF req.category \notin AnalyticsCategory \/ ReadableFiles = << >>
       THEN last = None
       ELSE /\ ~last.none
            /\ last.text # << >>
            /\ last.text = Concatenation(ReadableFiles, Len(ReadableFiles))

(* C22: the function returns None for an unrecognized category and for a   *)
(* category none of whose files can be read; with at least one readable    *)
(* file it returns a text, the contents of the readable files in table     *)
(* order joined by a blank line, which is empty exactly when the only      *)
(* readable file is empty; the call always reaches its return.             *)
C22_ResolverText ==
    /\ req.pc = "returned"
       => IF req.category \notin AnalyticsCategory \/ ReadableFiles = << >>
          THEN last = None
          ELSE /\ ~last.none
               /\ last.text = Concatenation(ReadableFiles, Len(ReadableFiles))
               /\ last.text = << >>
                     <=> /\ Len(ReadableFiles) = 1
                         /\ req.files[ReadableFiles[1]] = "empty"
    /\ req.pc # "returned" => ENABLED LoaderNext

(* the call returned the text of two files of ENGAGEMENT in table order,   *)
(* having passed over a missing file, a failing file and an empty one      *)
C22_Witness ==
    /\ req.pc = "returned"
    /\ req.category = "ENGAGEMENT"
    /\ {req.files[f] : f \in DOMAIN req.files} = FileStatus
    /\ req.files["time_by_section.md"] = "text"
    /\ req.files["search_behavior.md"] = "text"
    /\ Len(ReadableFiles) = 3
    /\ ~last.none
    /\ Len(last.text) = 4

----------------------------------------------------------------------------
(* Claims about the session endpoints, checked under ApiSpec *)

----------------------------------------------------------------------------
(* AzureSQLReadOnlyConnection of app/database.py.  A query is a sequence   *)
(* of tokens: words, the comment marks "--", "/*" and "*/", and the line   *)
(* end.  Here req holds the object (its connection and the statements that *)
(* have reached cursor.execute) and last what the latest call did.         *)

LINE_END == "\n"

Queries ==
    {<<"SELECT", "users">>,
     <<"select", "users">>,
     <<"DELETE", "users">>,
     <<"SELECT", "users", "--", "DROP", LINE_END>>,
     <<"/*", "SELECT", "*/", "DROP", "users">>,
     <<"/*", "--", "*/", "DROP", LINE_END, "SELECT", "users">>,
     <<"WITH", "t", "SELECT", "t">>,
     <<"users">>,
     <<"SELECT", "users", "INTO", "t", "VALUES">>,
     <<"SHOW", "users">>,
     <<"SELECT", "SP_HELP">>}

(* str.upper on the words of the queries *)
upper(word) ==
    CASE word = "select" -> "SELECT"
      [] word = "users" -> "USERS"
      [] word = "t" -> "T"
      [] OTHER -> word

(* re.sub(r'--.*', '', query): the tokens from a "--" up to the line end   *)
(* are dropped, the line end stays                                         *)
RECURSIVE strip_line_comments(_, _)
strip_line_comments(query, in_comment) ==
    IF query = << >> THEN << >>
    ELSE LET token == Head(query)
             rest == Tail(query)
         IN  IF token = LINE_END
             THEN <<token>> \o strip_line_comments(rest, FALSE)
             ELSE IF in_comment \/ token = "--"
             THEN strip_line_comments(rest, TRUE)
             ELSE <<token>> \o strip_line_comments(rest, FALSE)

(* the position of the first closing mark of query, 0 if there is none *)
RECURSIVE closing(_, _)
closing(query, i) ==
    IF i > Len(query) THEN 0
    ELSE IF query[i] = "*/" THEN i
    ELSE closing(query, i + 1)

(* re.sub of the block comments, not greedy and across lines: an opening   *)
(* mark and what follows up to the next closing mark are dropped, an       *)
(* opening mark that is never closed stays                                 *)
RECURSIVE strip_block_comments(_)
strip_block_comments(query) ==
    IF query = << >> THEN << >>
    ELSE IF Head(query) = "/*" /\ closing(query, 2) # 0
    THEN strip_block_comments(SubSeq(query, closing(query, 2) + 1, Len(query)))
    ELSE <<Head(query)>> \o strip_block_comments(Tail(query))

(* the three re.sub of _is_read_only_query with strip and upper: the words *)
(* that are in no comment, in upper case                                   *)
clean(query) ==
    LET words == SelectSeq(strip_block_comments(strip_line_comments(query, FALSE)),
                           LAMBDA token : token # LINE_END)
    IN  [i \in DOMAIN words |-> upper(words[i])]

WriteWords ==
    {"INSERT", "UPDATE", "DELETE", "DROP", "CREATE", "ALTER", "TRUNCATE",
     "MERGE", "REPLACE", "EXEC", "EXECUTE", "CALL", "SP_HELP"}

(* one of write_patterns matches the cleaned query *)
MatchesWritePattern(clean_query) ==
    \/ \E i \in DOMAIN clean_query : clean_query[i] \in WriteWords
    \/ \E i, j \in DOMAIN clean_query :
          i < j /\ clean_query[i] = "INTO" /\ clean_query[j] = "VALUES"

(* one of allowed_patterns matches the cleaned query *)
MatchesAllowedPattern(clean_query) ==
    /\ clean_query # << >>
    /\ \/ Head(clean_query) \in {"SELECT", "SHOW", "DESCRIBE", "EXPLAIN"}
       \/ /\ Head(clean_query) \in {"WITH", "DECLARE"}
          /\ \E i \in 2..Len(clean_query) : clean_query[i] = "SELECT"

is_read_only_query(query) ==
    LET clean_query == clean(query)
    IN  /\ ~MatchesWritePattern(clean_query)
        /\ MatchesAllowedPattern(clean_query)

DbIdle == [raised |-> "-", connected |-> FALSE, executed |-> FALSE]

DbInit ==
    /\ clock = 0
    /\ sessions = << >>
    /\ heap = [i \in 1..MaxObjs |-> Free]
    /\ apiKey = ValidToken
    /\ app = "routers"
    /\ req = [connection |-> "None", statements |-> {}]
    /\ last = DbIdle

(* execute_query that opens the connection before it checks the query *)
execute_query_connect_first(query, connects, executes) ==
    /\ IF req.connection = "None" /\ ~connects
       THEN /\ last' = [DbIdle EXCEPT !.raised = "Exception", !.connected = TRUE]
            /\ UNCHANGED req
       ELSE IF ~is_read_only_query(query)
       THEN /\ last' = [DbIdle EXCEPT !.raised = "ValueError",
                                      !.connected = req.connection = "None"]
            /\ req' = [req EXCEPT !.connection = "open"]
       ELSE /\ req' = [connection |-> "open",
                       statements |-> req.statements \cup {query}]
            /\ last' = [raised |-> IF executes THEN "-" ELSE "Error",
                        connected |-> req.connection = "None",
                        executed |-> TRUE]
    /\ UNCHANGED <<clock, sessions, heap, apiKey, app>>

(* execute_query(query): connects is whether pyodbc.connect succeeds if it *)
(* is called, executes whether cursor.execute and the fetch succeed.  last *)
(* records the exception raised and whether the call went to              *)
(* pyodbc.connect and to cursor.execute                                    *)
execute_query(query, connects, executes) ==
    /\ IF ~is_read_only_query(query)
       THEN /\ last' = [DbIdle EXCEPT !.raised = "ValueError"]
            /\ UNCHANGED req
       ELSE IF req.connection = "None" /\ ~connects
       THEN /\ last' = [DbIdle EXCEPT !.raised = "Exception", !.connected = TRUE]
            /\ UNCHANGED req
       ELSE /\ req' = [connection |-> "open",
                       statements |-> req.statements \cup {query}]
            /\ last' = [raised |-> IF executes THEN "-" ELSE "Error",
                        connected |-> req.connection = "None",
                        executed |-> TRUE]
    /\ UNCHANGED <<clock, sessions, heap, apiKey, app>>

disconnect ==
    /\ req.connection = "open"
    /\ req' = [req EXCEPT !.connection = "None"]
    /\ last' = DbIdle
    /\ UNCHANGED <<clock, sessions, heap, apiKey, app>>

DbNext ==
    \/ \E q \in Queries, c, e \in BOOLEAN : execute_query(q, c, e)
    \/ disconnect

DbSpec == DbInit /\ [][DbNext]_vars

(* C24: execute_query validates before it touches the database.  A query   *)
(* the read-only check rejects raises ValueError with no call of           *)
(* pyodbc.connect and of cursor.execute, and the object is unchanged;      *)
(* every statement that reaches cursor.execute has passed the check; a     *)
(* call made without a connection connects first, and raises without       *)
(* executing when the connection attempt fails.                            *)
C24_ValidateFirst ==
    [][\A q \in Queries, c, e \in BOOLEAN :
         execute_query(q, c, e)
         => /\ ~is_read_only_query(q)
                  => /\ last'.raised = "ValueError"
                     /\ ~last'.connected /\ ~last'.executed
                     /\ req' = req
            /\ \A x \in req'.statements \ req.statements :
                  x = q /\ last'.executed /\ is_read_only_query(x)
            /\ last'.executed => q \in req'.statements /\ req'.connection = "open"
            /\ (is_read_only_query(q) /\ req.connection = "None")
                  => /\ last'.connected
                     /\ ~c => /\ last'.raised = "Exception"
                               /\ ~last'.executed
                               /\ req' = req]_vars

(* a query with a DROP behind a block comment has just been refused with   *)
(* ValueError and without a connection attempt, on an object that has run  *)
(* read-only statements and has been disconnected since                    *)
C24_Witness ==
    /\ last = [DbIdle EXCEPT !.raised = "ValueError"]
    /\ req.connection = "None"
    /\ <<"WITH", "t", "SELECT", "t">> \in req.statements
    /\ <<"SELECT", "users", "--", "DROP", LINE_END>> \in req.statements
    /\ \A q \in req.statements : is_read_only_query(q)

----------------------------------------------------------------------------
(* What the LLM client is given.  b.Chat(state) is called at the end of    *)
(* the first stretch of a query handler, b.AnswerAnalyticsQuestion(state,  *)
(* analytics_data) at the end of the second: each is given the State       *)
(* object the handler holds, as it is at that moment.  Two texts tell the  *)
(* user messages of two requests apart.                                    *)

OTHER_TEXT == "thanks"

DialogBodies == Bodies \cup {OTHER_TEXT}

DialogNext ==
    \/ Tick
    \/ \E t \in Tokens : Unauthorized(t)
    \/ \E r \in Reqs, t \in Tokens, hdr \in HeaderValues, b \in DialogBodies :
          QueryStart(r, t, hdr, b)
    \/ \E r \in Reqs, o \in ChatOutcomes, d \in ResolverOutcomes :
          ChatReturns(r, o, d)
    \/ \E r \in Reqs, o \in AnswerOutcomes : AnswerReturns(r, o)

DialogSpec == Init /\ [][DialogNext]_vars

(* the last message of role "user" in history h; h holds one *)
LastUser(h) ==
    h[CHOOSE i \in DOMAIN h :
        /\ h[i].role = "user"
        /\ \A j \in DOMAIN h : j > i => h[j].role # "user"]

AssistantCount(h) == Cardinality({i \in DOMAIN h : h[i].role = "assistant"})

(* request r calls b.Chat in this step *)
CallsChat(r) == req[r].pc = "new" /\ req'[r].pc = "chat"

(* request r calls b.AnswerAnalyticsQuestion in this step *)
CallsAnswer(r) == req[r].pc = "chat" /\ req'[r].pc = "answer"

(* request q starts or returns in this step, on session id sid *)
ActsOn(q, sid) ==
    /\ req'[q] # req[q]
    /\ req[q].sid = sid \/ req'[q].sid = sid

(* C25 as stated: the user message is appended before b.Chat is called,    *)
(* b.Chat and b.AnswerAnalyticsQuestion are given the history of the       *)
(* session whose last user message is the one of this request, and no      *)
(* assistant message is appended by a request before its last LLM call     *)
(* has returned.                                                           *)
C25_HistoryOrder ==
    [][\A r \in Reqs :
         /\ CallsChat(r)
               => LET h == heap'[req'[r].state]
                  IN  /\ sessions'[req'[r].sid].state = req'[r].state
                      /\ h[Len(h)] = Message("user", req'[r].msg)
                      /\ LastUser(h) = Message("user", req'[r].msg)
                      /\ AssistantCount(h) = 1
                            \/ /\ req'[r].state \in Range([x \in DOMAIN sessions |-> sessions[x].state])
                               /\ AssistantCount(h) = AssistantCount(heap[req'[r].state])
         /\ CallsAnswer(r)
               => /\ heap' = heap
                  /\ LastUser(heap'[req[r].state]) = Message("user", req[r].msg)]_vars

(* C25: the user message is appended before b.Chat is called, and b.Chat   *)
(* is given the history stored for the session, which ends with that       *)
(* message.  b.AnswerAnalyticsQuestion is given the same State object: it  *)
(* holds the user message of the request, and while the request waits its  *)
(* history changes only by what another query running on the same session *)
(* id appends.  A request appends no assistant message before its last LLM    *)
(* call has returned.                                                      *)
C25_HistoryOrderAlone ==
    [][\A r \in Reqs :
         /\ CallsChat(r)
               => LET h == heap'[req'[r].state]
                  IN  /\ sessions'[req'[r].sid].state = req'[r].state
                      /\ h[Len(h)] = Message("user", req'[r].msg)
                      /\ LastUser(h) = Message("user", req'[r].msg)
                      /\ AssistantCount(h) = 1
                            \/ /\ req'[r].state \in Range([x \in DOMAIN sessions |-> sessions[x].state])
                               /\ AssistantCount(h) = AssistantCount(heap[req'[r].state])
         /\ CallsAnswer(r)
               => /\ heap' = heap
                  /\ Message("user", req[r].msg) \in Range(heap'[req[r].state])
         /\ (Running(r) /\ Running(r)')
               => /\ req'[r].state = req[r].state
                  /\ IsPrefix(heap[req[r].state], heap'[req[r].state])
                  /\ heap'[req[r].state] # heap[req[r].state]
                        => \E q \in Reqs \ {r} : ActsOn(q, req[r].sid)]_vars

(* a request waits for b.AnswerAnalyticsQuestion, which was given the      *)
(* history welcome, hello, thanks: its own message and, after it, the      *)
(* message of a request that started while it waited for b.Chat            *)
C25_Witness ==
    \E r, q \in Reqs :
        /\ r # q
        /\ req[r].pc = "answer" /\ req[r].msg = "hello"
        /\ req[q].pc = "chat" /\ req[q].msg = OTHER_TEXT
        /\ req[q].state = req[r].state
        /\ heap[req[r].state] = <<Message("assistant", WELCOME),
                                  Message("user", "hello"),
                                  Message("user", OTHER_TEXT)>>

----------------------------------------------------------------------------
(* Rejected requests, checked under Spec *)

Rejections == {400, 403, 422, 500}

(* C26: a request that is rejected (403 for a wrong or absent token, 500   *)
(* when no key is configured, 400 for a missing or empty X-Session-ID, 422 *)
(* for an invalid body) leaves the session store as it was: no entry is    *)
(* created, removed or swept, no history changes and no handler starts.    *)
C26_RejectedLeavesStore ==
    [][(last'.op = "-" /\ last'.status \in Rejections)
       => /\ sessions' = sessions
          /\ heap' = heap
          /\ req' = req]_vars

(* a query without X-Session-ID was just refused with 400 while the store  *)
(* holds an entry older than 4 hours, which a sweep would have removed     *)
C26_Witness ==
    /\ last.status = 400
    /\ last.op = "-"
    /\ \E sid \in DOMAIN sessions :
          /\ clock - sessions[sid].created_at > EXPIRY_HOURS
          /\ Len(History(sid)) = 3

----------------------------------------------------------------------------
(* Clients that wait for the answer of a query before they send the next   *)
(* one on the same session id: every endpoint is served, and at most one   *)
(* query is in flight on an id at a time.                                  *)

QueryStartAlone(r, token, hdr, body) ==
    /\ \A q \in Reqs : Running(q) => req[q].sid # hdr
    /\ QueryStart(r, token, hdr, body)

SerialNext ==
    \/ Tick
    \/ \E t \in Tokens : Unauthorized(t)
    \/ \E t \in Tokens : create_session(t)
    \/ \E t \in Tokens, sid \in SessionIds : get_session(t, sid)
    \/ \E t \in Tokens, sid \in SessionIds : delete_session_endpoint(t, sid)
    \/ \E r \in Reqs, t \in Tokens, hdr \in HeaderValues, b \in Bodies :
          QueryStartAlone(r, t, hdr, b)
    \/ \E r \in Reqs, o \in ChatOutcomes, d \in ResolverOutcomes :
          ChatReturns(r, o, d)
    \/ \E r \in Reqs, o \in AnswerOutcomes : AnswerReturns(r, o)

SerialSpec == Init /\ [][SerialNext]_vars

(* the welcome message followed by (user, assistant) pairs *)
WelcomeThenPairs(h) ==
    /\ h[1] = Message("assistant", WELCOME)
    /\ Len(h) % 2 = 1
    /\ \A i \in DOMAIN h :
          h[i].role = IF i % 2 = 1 THEN "assistant" ELSE "user"

(* C27: with at most one query in flight on a session id at a time,        *)
(* whenever no request is in flight the history stored for every session   *)
(* id is the welcome message followed by zero or more (user, assistant)    *)
(* pairs: it starts with the assistant welcome, its length is odd and the  *)
(* roles alternate, whichever path the queries took.                       *)
C27_WelcomeThenPairs ==
    (\A r \in Reqs : ~Running(r))
    => \A sid \in DOMAIN sessions : WelcomeThenPairs(History(sid))

----------------------------------------------------------------------------
(* DELETE while a query waits for the LLM client, checked under Spec *)

(* request r runs on an id the store holds no entry for: the entry it was  *)
(* given has been deleted (or swept) since the request started             *)
Orphaned(r) == Running(r) /\ req[r].sid \notin DOMAIN sessions

(* C28: a delete that completed while a query on the same id was waiting   *)
(* for the LLM client is not undone by that query: when the query returns, *)
(* on its success path or on its exception path, the store still holds no  *)
(* entry for the id.                                                       *)
C28_DeleteNotUndone ==
    [][\A r \in Reqs :
         (Orphaned(r) /\ Returns(r)) => req[r].sid \notin DOMAIN sessions']_vars

----------------------------------------------------------------------------
(* set_state then get_state, checked under StoreSpec *)

(* C29: set_state followed by get_state is a round trip.  For every store, *)
(* every id and every State the client holds, set_state(id, s) changes the *)
(* entry of no other id, and get_state(id) called right after it returns   *)
(* s with its history, whether id was absent or present and whatever the   *)
(* age of its entry (compared where the heap of the model has room for     *)
(* get_state).                                                             *)
C29_RoundTrip ==
    \A id \in SessionIds :
        \A s \in Held :
            LET S == set_state(sessions, id, s, clock)
                g == get_state(S, heap, id, clock)
            IN  /\ DOMAIN S = (DOMAIN sessions) \cup {id}
                /\ \A x \in (DOMAIN sessions) \ {id} : S[x] = sessions[x]
                /\ HasRoom(S, heap, id, clock)
                      => /\ g.ret = s
                         /\ g.heap[g.ret] = heap[s]

----------------------------------------------------------------------------
(* The CLI client of chatbot_cli.py against POST /api/sessions, checked    *)
(* under ApiSpec                                                           *)

(* create_session of the CLI on a response with the status code, the keys  *)
(* of the JSON body, its session_id and the recent_messages of its state:  *)
(* the CLI exits unless the status is 200, and takes the welcome message   *)
(* from the first message when that is an assistant message                *)
cli_create_session(status_code, keys, session_id, recent_messages) ==
    IF status_code = 200 /\ "session_id" \in keys
    THEN [exit |-> FALSE,
          session_id |-> session_id,
          welcome_message |->
              IF /\ "state" \in keys
                 /\ recent_messages # << >>
                 /\ recent_messages[1].role = "assistant"
              THEN recent_messages[1].content
              ELSE "None"]
    ELSE [exit |-> TRUE, session_id |-> "-", welcome_message |-> "None"]

(* C30: the CLI and the server agree on session creation.  Whenever        *)
(* POST /api/sessions creates a session, create_session of the CLI accepts *)
(* the response, obtains the session id and the welcome message, and does  *)
(* not exit with "Failed to create session".                               *)
C30_CliAcceptsCreated ==
    [][(last'.op = "create_session" /\ last'.detail = "ok" /\ sessions' # sessions)
       => LET sid == last'.session_id
              cli == cli_create_session(last'.status, last'.keys, sid,
                                        heap'[sessions'[sid].state])
          IN  /\ ~cli.exit
              /\ cli.session_id = sid
              /\ cli.welcome_message = WELCOME]_vars

====
